---- MODULE Spec2Model ----
(***************************************************************************)
(* Model of Lets_Do_LBM/Python3/lets_do_LBM.py: the D2Q9 lattice Boltzmann *)
(* solver.  Streaming, bounce-back, macroscopic recovery, equilibrium,     *)
(* collision and the time-stepping driver are translated statement by      *)
(* statement.                                                              *)
(*                                                                         *)
(* Numbers.  The program computes in IEEE doubles.  A value is modelled    *)
(* as <<n, d>>:                                                            *)
(*   d > 0   the exact rational n/d, in lowest terms;                      *)
(*   <<0,0>> NonFinite: the result of a division by zero (numpy returns    *)
(*           inf or nan and goes on) and of every operation on it;         *)
(*   <<1,0>> Untracked: a value whose exact numerator or denominator       *)
(*           no longer fits the model's integers.  Nothing is known about  *)
(*           it; every formula about values speaks of tracked values only. *)
(* The program never branches on a value of f, so the control flow of the  *)
(* run does not depend on which of the three a value is.                   *)
(*                                                                         *)
(* Arrays are functions on 0..n-1, indexed as in the source: f[d][i][j].   *)
(***************************************************************************)
EXTENDS Integers, Sequences, FiniteSets, TLC

VARIABLES
  pc,           \* position in lets_do_LBM (or in a harness calling one function)
  nx, ny,       \* grid dimensions                                   (line 377)
  choice,       \* scenario name                                     (line 390)
  BOUND,        \* obstacle mask returned by the geometry function   (line 392)
  deltaU,       \* inlet velocity increment                          (line 392)
  endTime,      \* number of timesteps                               (line 392)
  f,            \* distribution functions f[d][i][j]                 (line 380)
  f_EQ,         \* equilibrium distributions                         (line 381)
  BOUNCEDBACK,  \* captured populations, per obstacle cell           (line 398)
  DENSITY, UX, UY,  \* macroscopic fields                        (lines 447-452)
  vorticity,    \*                                                   (line 421)
  ts,           \* timestep counter                                  (line 404)
  ctsave,       \* save counter                                      (line 410)
  print_dump,   \* snapshot cadence                                  (line 409)
  error,        \* the exception that ended the run, or "none"
  vtk,          \* what was handed to print_vtk_files, in order
  hist          \* history kept for the properties (not program state)

vars == << pc, nx, ny, choice, BOUND, deltaU, endTime, f, f_EQ, BOUNCEDBACK,
           DENSITY, UX, UY, vorticity, ts, ctsave, print_dump, error, vtk, hist >>

(***************************************************************************)
(* Bounds of the model.                                                    *)
(***************************************************************************)
MaxN == 3          \* nx, ny range over 1..MaxN (100 in the source)
MaxEndTime == 100  \* the longest run modelled (2500..5000 in the source)

(***************************************************************************)
(* Exact arithmetic on values.                                             *)
(***************************************************************************)
MaxInt == 2147483646 + 1   \* the largest integer of the model's arithmetic

Abs(a) == IF a < 0 THEN -a ELSE a

RECURSIVE GCD(_, _)
GCD(a, b) == IF b = 0 THEN a ELSE GCD(b, a % b)

NonFinite == << 0, 0 >>
Untracked == << 1, 0 >>

IsNum(x) == x[2] > 0

MulFits(a, b) == a = 0 \/ b = 0 \/ Abs(a) <= MaxInt \div Abs(b)
AddFits(a, b) == Abs(a) <= MaxInt - Abs(b)

\* n/d in lowest terms, d > 0
Rat(n, d) ==
  IF n = 0 THEN << 0, 1 >>
  ELSE LET g == GCD(Abs(n), d) IN << n \div g, d \div g >>

Zero == << 0, 1 >>
One  == << 1, 1 >>
Whole(k) == << k, 1 >>

RMul(x, y) ==
  IF x = NonFinite \/ y = NonFinite THEN NonFinite
  ELSE IF x = Untracked \/ y = Untracked THEN Untracked
  ELSE IF x[1] = 0 \/ y[1] = 0 THEN Zero
  ELSE LET g1 == GCD(Abs(x[1]), y[2])
           g2 == GCD(Abs(y[1]), x[2])
           a == x[1] \div g1
           b == y[1] \div g2
           c == x[2] \div g2
           d == y[2] \div g1
       IN IF MulFits(a, b) /\ MulFits(c, d) THEN << a * b, c * d >>
          ELSE Untracked

RAdd(x, y) ==
  IF x = NonFinite \/ y = NonFinite THEN NonFinite
  ELSE IF x = Untracked \/ y = Untracked THEN Untracked
  ELSE LET g  == GCD(x[2], y[2])
           l1 == y[2] \div g
           l2 == x[2] \div g
       IN IF MulFits(x[1], l1) /\ MulFits(y[1], l2) /\ MulFits(x[2], l1)
          THEN IF AddFits(x[1] * l1, y[1] * l2)
               THEN Rat(x[1] * l1 + y[1] * l2, x[2] * l1)
               ELSE Untracked
          ELSE Untracked

RNeg(x) == IF IsNum(x) THEN << -x[1], x[2] >> ELSE x

RSub(x, y) == RAdd(x, RNeg(y))

\* x / y as numpy divides: a zero divisor gives a non-finite value, no exception
RDiv(x, y) ==
  IF x = NonFinite \/ y = NonFinite THEN NonFinite
  ELSE IF x = Untracked \/ y = Untracked THEN Untracked
  ELSE IF y[1] = 0 THEN NonFinite
  ELSE RMul(x, IF y[1] > 0 THEN << y[2], y[1] >> ELSE << -y[2], -y[1] >>)

\* x < y on tracked values
RLess(x, y) == x[1] * y[2] < y[1] * x[2]

(***************************************************************************)
(* Arrays.                                                                 *)
(***************************************************************************)
Rows(n) == 0 .. (n - 1)

Len0(A) == Cardinality(DOMAIN A)

\* np.arange(a, b, 1)
Arange(a, b) == [k \in 0 .. (b - a - 1) |-> a + k]

\* np.concatenate((A, B), axis=0)
Concat(A, B) ==
  [k \in 0 .. (Len0(A) + Len0(B) - 1) |->
     IF k < Len0(A) THEN A[k] ELSE B[k - Len0(A)]]

\* np.ones / np.zeros of shape (n, m), scaled
Full(n, m, v) == [i \in Rows(n) |-> [j \in Rows(m) |-> v]]

\* sum of the values S[k], k in the finite set K
RECURSIVE RSum(_, _)
RSum(S, K) ==
  IF K = {} THEN Zero
  ELSE LET k == CHOOSE k \in K : \A m \in K : m <= k
       IN RAdd(RSum(S, K \ {k}), S[k])

(***************************************************************************)
(* please_Stream_Distribution (lines 234-302).                             *)
(*                                                                         *)
(* Every statement of the function is an assignment through index arrays,  *)
(*     f[d, oInds, :] = f[d, inds, :]     (axis 0, the first grid index)   *)
(*     f[d, :, oInds] = f[d, :, indsY]    (axis 1, the second grid index)  *)
(* where oInds = arange(ny) is used for BOTH axes.  numpy reads the right  *)
(* side into a copy, then checks the target indices against the axis and   *)
(* the shape of the copy against the shape of the target.                  *)
(***************************************************************************)
Single(v) == [k \in {0} |-> v]

oInds(n) == Arange(0, n)

\* inds for a shift towards increasing index: [n-1, 0, 1, .., n-2]
ShiftUp(n) == Concat(Single(n - 1), Arange(0, n - 1))

\* inds for a shift towards decreasing index: [1, 2, .., n-1, 0]
ShiftDown(n) == Concat(Arange(1, n), Single(0))

\* the exception an indexed assignment of `src` entries to `tgt` entries
\* raises on an axis of length n, or "ok"
AssignStatus(n, tgt, src) ==
  IF \E k \in DOMAIN src : src[k] >= n THEN "IndexError"
  ELSE IF \E k \in DOMAIN tgt : tgt[k] >= n THEN "IndexError"
  ELSE IF Len0(src) # Len0(tgt) /\ Len0(src) # 1 THEN "ValueError"
  ELSE "ok"

\* the entry of src that lands on index i of the target axis (the last one
\* listed wins); a one-entry src is broadcast
SourceOf(i, tgt, src) ==
  LET k == CHOOSE k \in DOMAIN tgt :
             tgt[k] = i /\ \A m \in DOMAIN tgt : tgt[m] = i => m <= k
  IN IF Len0(src) = 1 THEN src[0] ELSE src[k]

\* P[tgt, :] = P[src, :]
AssignAxis0(P, tgt, src) ==
  [i \in DOMAIN P |->
     IF \E k \in DOMAIN tgt : tgt[k] = i THEN P[SourceOf(i, tgt, src)]
     ELSE P[i]]

\* P[:, tgt] = P[:, src]
AssignAxis1(P, tgt, src) ==
  [i \in DOMAIN P |->
     [j \in DOMAIN P[i] |->
        IF \E k \in DOMAIN tgt : tgt[k] = j THEN P[i][SourceOf(j, tgt, src)]
        ELSE P[i][j]]]

\* the twelve assignments of the function, in source order
StreamSteps(n, m) ==
  << [d |-> 0, axis |-> 0, inds |-> ShiftUp(n)],      \* 242 stream right
     [d |-> 1, axis |-> 1, inds |-> ShiftUp(m)],      \* 249 stream up
     [d |-> 2, axis |-> 0, inds |-> ShiftDown(n)],    \* 256 stream left
     [d |-> 3, axis |-> 1, inds |-> ShiftDown(m)],    \* 263 stream down
     [d |-> 4, axis |-> 0, inds |-> ShiftUp(n)],      \* 271 right
     [d |-> 4, axis |-> 1, inds |-> ShiftUp(m)],      \* 272 up
     [d |-> 5, axis |-> 0, inds |-> ShiftDown(n)],    \* 280 left
     [d |-> 5, axis |-> 1, inds |-> ShiftUp(m)],      \* 281 up
     [d |-> 6, axis |-> 0, inds |-> ShiftDown(n)],    \* 289 left
     [d |-> 6, axis |-> 1, inds |-> ShiftDown(m)],    \* 290 down
     [d |-> 7, axis |-> 0, inds |-> ShiftUp(n)],      \* 298 right
     [d |-> 7, axis |-> 1, inds |-> ShiftDown(m)] >>  \* 299 down

\* one assignment applied to F; n, m are the lengths of the two grid axes
StreamStep(F, st, n, m) ==
  LET tgt == oInds(m)                                \* line 236
      len == IF st.axis = 0 THEN n ELSE m
      status == AssignStatus(len, tgt, st.inds)
  IN IF status # "ok" THEN [status |-> status, f |-> F]
     ELSE [status |-> "ok",
           f |-> [F EXCEPT ![st.d] =
                    IF st.axis = 0 THEN AssignAxis0(F[st.d], tgt, st.inds)
                    ELSE AssignAxis1(F[st.d], tgt, st.inds)]]

RECURSIVE StreamFrom(_, _, _, _, _)
StreamFrom(R, steps, k, n, m) ==
  IF k > Len(steps) \/ R.status # "ok" THEN R
  ELSE StreamFrom(StreamStep(R.f, steps[k], n, m), steps, k + 1, n, m)

\* [status |-> "ok", f |-> the streamed f], or the exception raised
please_Stream_Distribution(F, n, m) ==
  StreamFrom([status |-> "ok", f |-> F], StreamSteps(n, m), 1, n, m)

(***************************************************************************)
(* Bounce-back (lines 435-442 and 491-498).                                *)
(***************************************************************************)
Moving == 0 .. 7

\* a reflection that mirrors the diagonals in the x axis only
REFLECTED_DiagonalsMirrored ==
  [d \in Moving |->
     CASE d = 0 -> 2 [] d = 1 -> 3 [] d = 2 -> 0 [] d = 3 -> 1
       [] d = 4 -> 7 [] d = 5 -> 6 [] d = 6 -> 5 [] d = 7 -> 4]

\* REFLECTED[d]: the level of f that receives BOUNCEDBACK[:, d]
REFLECTED ==
  [d \in Moving |->
     CASE d = 0 -> 2      \* 491
       [] d = 1 -> 3      \* 492
       [] d = 2 -> 0      \* 493
       [] d = 3 -> 1      \* 494
       [] d = 4 -> 6      \* 495
       [] d = 5 -> 7      \* 496
       [] d = 6 -> 4      \* 497
       [] d = 7 -> 5]     \* 498

\* np.nonzero(BOUND): the index pairs of the nonzero entries (line 397)
ON(B) == UNION {{<< i, j >> : j \in {k \in DOMAIN B[i] : B[i][k] # 0}} :
                i \in DOMAIN B}

\* BOUNCEDBACK[:, d] = f[d, ON_i, ON_j]
Capture(F, on) == [c \in on |-> [d \in Moving |-> F[d][c[1]][c[2]]]]

\* f[REFLECTED[d], ON_i, ON_j] = BOUNCEDBACK[:, d]
Restore(F, BB, on) ==
  [e \in DOMAIN F |->
     [i \in DOMAIN F[e] |->
        [j \in DOMAIN F[e][i] |->
           IF e \in Moving /\ << i, j >> \in on
           THEN LET d == CHOOSE d \in Moving : REFLECTED[d] = e
                IN BB[<< i, j >>][d]
           ELSE F[e][i][j]]]]

(***************************************************************************)
(* give_Me_Problem_Geometry (lines 151-225).                               *)
(*                                                                         *)
(* The function returns the SET of its possible outcomes (the porous       *)
(* scenarios draw the mask at random): [status, BOUNDs, deltaU].  The      *)
(* scenario's endTime (2500, 5000, 4000: lines 160-219) is far beyond what *)
(* can be explored; the run draws it from EndTimes instead, as nx and ny   *)
(* (100 in the source) are drawn from 1..MaxN.                             *)
(***************************************************************************)
Scenarios == {"channel", "porous1", "porous2", "cylinder1", "cylinder2"}

Floor(x) == x[1] \div x[2]
Ceil(x)  == -((-x[1]) \div x[2])
Max(a, b) == IF a >= b THEN a ELSE b
Min(a, b) == IF a <= b THEN a ELSE b

\* BOUNDs[0:, cols] = v
SetCols(B, cols, v) ==
  [i \in DOMAIN B |-> [j \in DOMAIN B[i] |-> IF j \in cols THEN v ELSE B[i][j]]]

\* BOUNDs[rows, :] = v
SetRows(B, rows, v) ==
  [i \in DOMAIN B |-> [j \in DOMAIN B[i] |-> IF i \in rows THEN v ELSE B[i][j]]]

\* "1's" on the two boundary lines: BOUNDs[0:, [0, ny-1]] = 1
Walls(B, m) == SetCols(B, {0, m - 1}, 1)

\* np.random.rand(nx, ny) < (1 - percentPorosity): any 0/1 matrix
RandomMasks(n, m) == [Rows(n) -> [Rows(m) -> {0, 1}]]

Channel(n, m) == Walls(Full(n, m, 0), m)                       \* 157-158

Porous1(R, n, m) ==                                            \* 165-171
  LET aS == Ceil(Rat(n, 5))
      aE == Ceil(Rat(4 * n, 5))
  IN Walls(SetRows(SetRows(R, 0 .. (aS - 1), 0), aE .. (n - 1), 0), m)

Porous2(R, n, m) ==                                            \* 178-185
  LET open == (0 .. (Floor(Rat(9 * n, 31)) - 1))
              \cup (Floor(Rat(7 * n, 31)) .. (Ceil(Rat(9 * n, 31)) - 1))
              \cup (Floor(Rat(13 * n, 31)) .. (Ceil(Rat(15 * n, 31)) - 1))
              \cup (Floor(Rat(19 * n, 31)) .. (Ceil(Rat(21 * n, 31)) - 1))
              \cup (Floor(Rat(25 * n, 31)) .. (Ceil(Rat(27 * n, 31)) - 1))
              \cup (Floor(Rat(30 * n, 31)) .. (n - 1))
  IN Walls(SetRows(R, open, 0), m)

\* a0 = np.arange(-(nx-1)/2, (nx-1)/2+1, 1)                      (194, 207)
a0(n) == [k \in Rows(n) |-> Rat(2 * k - (n - 1), 2)]

Sq(x) == RMul(x, x)

\* the shapes (ny, nx) of a and (nx, ny) of a.T broadcast to one shape
Broadcastable(n, m) == n = m \/ n = 1 \/ m = 1

\* entry (r, c) of  (a + p)**2 + (a + q).T**2 , a = np.tile(a0, (ny, 1))
Disc(n, p, q, r, c) ==
  RAdd(Sq(RAdd(a0(n)[Min(c, n - 1)], p)), Sq(RAdd(a0(n)[Min(r, n - 1)], q)))

Cylinder1(n, m) ==                                             \* 194-200
  LET r  == Whole(Floor(Rat(2 * n, 7)))          \* np.floor(nx/3.5)
      aR == Whole(Ceil(Rat(2 * n, 7)))           \* np.ceil(nx/3.5)
      k  == Max(n, m)
  IN Walls([i \in Rows(k) |-> [j \in Rows(k) |->
              IF RLess(Disc(n, Zero, aR, i, j), r) THEN 1 ELSE 0]], m)

Cylinder2(n, m) ==                                             \* 207-217
  LET r  == Whole(Floor(Rat(2 * n, 5)))          \* np.floor(nx/2.5)
      aL == Whole(Floor(Rat(n, 5)))
      aR == Whole(Ceil(Rat(n, 2)))
      aM == RMul(Rat(3, 10), aR)
      c1 == RDiv(RMul(Rat(15, 4), aR), Whole(5)) \* 3.75*aR/5
      cL == RDiv(aL, Rat(7, 4))                  \* aL/1.75
      cM == RDiv(RMul(Whole(4), aM), Whole(5))   \* 4*aM/5
      k  == Max(n, m)
      B(p, q, i, j) == IF RLess(Disc(n, p, q, i, j), r) THEN 1 ELSE 0
  IN Walls([i \in Rows(k) |-> [j \in Rows(k) |->
              B(Zero, c1, i, j) + B(cL, cM, i, j) + B(RNeg(cL), cM, i, j)]], m)

Ok(B, dU) == [status |-> "ok", BOUNDs |-> B, deltaU |-> dU]
Raised(e) == [status |-> e, BOUNDs |-> << >>, deltaU |-> Zero]

\* a function that answers an unknown name with an empty mask
give_Me_Problem_Geometry_EmptyMask(ch, n, m) ==
  IF ch = "channel" THEN {Ok(Channel(n, m), Rat(1, 100))}
  ELSE {Ok(Full(n, m, 0), Zero)}

\* a name that matches no branch leaves BOUNDs, deltaU and endTime unbound:
\* the return statement (line 225) raises UnboundLocalError
give_Me_Problem_Geometry(ch, n, m) ==
  CASE ch = "channel"   -> {Ok(Channel(n, m), Rat(1, 100))}
    [] ch = "porous1"   -> {Ok(Porous1(R, n, m), Rat(1, 10000000)) :
                              R \in RandomMasks(n, m)}
    [] ch = "porous2"   -> {Ok(Porous2(R, n, m), Rat(1, 10000000)) :
                              R \in RandomMasks(n, m)}
    [] ch = "cylinder1" -> IF Broadcastable(n, m)
                           THEN {Ok(Cylinder1(n, m), Rat(1, 100))}
                           ELSE {Raised("ValueError")}
    [] ch = "cylinder2" -> IF Broadcastable(n, m)
                           THEN {Ok(Cylinder2(n, m), Rat(1, 100))}
                           ELSE {Raised("ValueError")}
    [] OTHER            -> {Raised("UnboundLocalError")}

\* give_Me_Boundary_Pts_For_Visualization (lines 115-140) indexes an array
\* of shape (nx, nx) and one of shape (ny, ny) with the obstacle indices
BoundaryPtsStatus(n, m, on) ==
  IF \E c \in on : c[1] >= Min(n, m) \/ c[2] >= Min(n, m) THEN "IndexError"
  ELSE "ok"

(***************************************************************************)
(* Simulation parameters (lines 374-381).                                  *)
(***************************************************************************)
tau     == Rat(11, 20)    \* 0.55
density == Rat(1, 100)    \* 0.01
w1 == Rat(4, 9)
w2 == Rat(1, 9)
w3_AsAxisWeight == Rat(1, 9)
w3 == Rat(1, 36)
Lx == One
Ly == One

(***************************************************************************)
(* Macroscopic recovery (lines 447-462).                                   *)
(***************************************************************************)
\* DENSITY = sum(f)
Density(F, n, m) ==
  [i \in Rows(n) |-> [j \in Rows(m) |-> RSum([d \in DOMAIN F |-> F[d][i][j]], DOMAIN F)]]

\* ( (f[a] + f[b] + f[c]) - (f[p] + f[q] + f[r]) ) / DENSITY
Velocity(F, D, n, m, a, b, c, p, q, r) ==
  [i \in Rows(n) |-> [j \in Rows(m) |->
     RDiv(RSub(RAdd(RAdd(F[a][i][j], F[b][i][j]), F[c][i][j]),
               RAdd(RAdd(F[p][i][j], F[q][i][j]), F[r][i][j])),
          D[i][j])]]

\* an x velocity that takes the y groups of the diagonals
VelocityX_DiagonalsByY(F, D, n, m) == Velocity(F, D, n, m, 0, 4, 5, 2, 6, 7)

VelocityX(F, D, n, m) == Velocity(F, D, n, m, 0, 4, 7, 2, 5, 6)     \* 450
VelocityY(F, D, n, m) == Velocity(F, D, n, m, 1, 4, 5, 3, 6, 7)     \* 452

\* UX[0,:] = UX[0,:] + deltaU
Inlet(U, dU) ==
  [i \in DOMAIN U |-> [j \in DOMAIN U[i] |->
     IF i = 0 THEN RAdd(U[i][j], dU) ELSE U[i][j]]]

\* A[ON_i, ON_j] = 0
ZeroAt(A, on) ==
  [i \in DOMAIN A |-> [j \in DOMAIN A[i] |->
     IF << i, j >> \in on THEN Zero ELSE A[i][j]]]

\* the inlet increment applied after the obstacle cells were zeroed
MacroUX_InletLast(F, D, n, m, dU, on) == Inlet(ZeroAt(VelocityX(F, D, n, m), on), dU)

\* UX after lines 450, 456 and 460
MacroUX(F, D, n, m, dU, on) == ZeroAt(Inlet(VelocityX(F, D, n, m), dU), on)

\* UY after lines 452 and 461
MacroUY(F, D, n, m, on) == ZeroAt(VelocityY(F, D, n, m), on)

(***************************************************************************)
(* Equilibrium (lines 466-476 and 311-331).                                *)
(***************************************************************************)
\* elementwise A op B
Map2(Op(_, _), A, B) ==
  [i \in DOMAIN A |-> [j \in DOMAIN A[i] |-> Op(A[i][j], B[i][j])]]

Map1(Op(_), A) == [i \in DOMAIN A |-> [j \in DOMAIN A[i] |-> Op(A[i][j])]]

\* w*DENSITY * (1 - (3/2)*U_SQU)
EqRest(w, rho, usq) ==
  RMul(RMul(w, rho), RSub(One, RMul(Rat(3, 2), usq)))

\* w*DENSITY * (1 + 3*c + (9/2)*(c*c) - (3/2)*U_SQU)
EqMoving(w, rho, c, usq) ==
  RMul(RMul(w, rho),
       RSub(RAdd(RAdd(One, RMul(Whole(3), c)), RMul(Rat(9, 2), RMul(c, c))),
            RMul(Rat(3, 2), usq)))

\* the weight each line of the function multiplies DENSITY by
WeightOf_Diagonal4AsAxis(d, W1, W2, W3) ==
  IF d = 8 THEN W1 ELSE IF d \in 0 .. 4 THEN W2 ELSE W3

WeightOf(d, W1, W2, W3) ==
  IF d = 8 THEN W1                  \* 314
  ELSE IF d \in 0 .. 3 THEN W2      \* 319-322
  ELSE W3                           \* 326-329

please_Give_Equilibrium_Distribution(W1, W2, W3, D, Ux, Uy, U_SQU, U_5, U_6, U_7, U_8, F_EQ) ==
  [d \in DOMAIN F_EQ |->
     [i \in DOMAIN D |-> [j \in DOMAIN D[i] |->
        LET w == WeightOf(d, W1, W2, W3)
            rho == D[i][j]
            usq == U_SQU[i][j]
        IN CASE d = 8 -> EqRest(w, rho, usq)                          \* 314
             [] d = 0 -> EqMoving(w, rho, Ux[i][j], usq)              \* 319
             [] d = 1 -> EqMoving(w, rho, Uy[i][j], usq)              \* 320
             [] d = 2 -> EqMoving(w, rho, RNeg(Ux[i][j]), usq)        \* 321
             [] d = 3 -> EqMoving(w, rho, RNeg(Uy[i][j]), usq)        \* 322
             [] d = 4 -> EqMoving(w, rho, U_5[i][j], usq)             \* 326
             [] d = 5 -> EqMoving(w, rho, U_6[i][j], usq)             \* 327
             [] d = 6 -> EqMoving(w, rho, U_7[i][j], usq)             \* 328
             [] d = 7 -> EqMoving(w, rho, U_8[i][j], usq)]]]          \* 329

\* lines 466-476: the derived velocities, then the call
Equilibrium(D, Ux, Uy, F_EQ) ==
  LET SqSum(x, y) == RAdd(RMul(x, x), RMul(y, y))
      Plus(x, y)  == RAdd(x, y)
      Minus(x, y) == RAdd(RNeg(x), y)
      U_SQU == Map2(SqSum, Ux, Uy)         \* 466
      U_5 == Map2(Plus, Ux, Uy)            \* 470
      U_6 == Map2(Minus, Ux, Uy)           \* 471
      U_7 == Map1(RNeg, U_5)               \* 472
      U_8 == Map1(RNeg, U_6)               \* 473
  IN please_Give_Equilibrium_Distribution(w1, w2, w3, D, Ux, Uy, U_SQU,
                                          U_5, U_6, U_7, U_8, F_EQ)

(***************************************************************************)
(* Collision (line 480):  f = f - (1/tau)*(f - f_EQ)                       *)
(***************************************************************************)
Relax(x, xeq) == RSub(x, RMul(RDiv(One, tau), RSub(x, xeq)))

Collide(F, F_EQ) == [d \in DOMAIN F |-> Map2(Relax, F[d], F_EQ[d])]

(***************************************************************************)
(* Vorticity (lines 509-511).  A slice 0:n-2 of an axis is empty for       *)
(* n <= 2, so only the entries (i, j) with i <= nx-3, j <= ny-3 change.    *)
(***************************************************************************)
Vorticity(V, Ux, Uy, n, m) ==
  LET dx == RDiv(Lx, Whole(n))             \* 379
      dy == RDiv(Ly, Whole(m))
  IN [i \in DOMAIN V |-> [j \in DOMAIN V[i] |->
        IF i <= n - 3 /\ j <= m - 3
        THEN RSub(RDiv(RSub(Uy[i + 1][j], Uy[i][j]), dx),
                  RDiv(RSub(Ux[i][j + 1], Ux[i][j]), dy))
        ELSE V[i][j]]]

\* total of f over all directions and cells
Total(F, n, m) ==
  LET D == Density(F, n, m)
  IN RSum([i \in Rows(n) |-> RSum(D[i], Rows(m))], Rows(n))

(***************************************************************************)
(* Values of the variables a specification does not use.                   *)
(***************************************************************************)
None == << >>

(***************************************************************************)
(* SpecStream: please_Stream_Distribution called on its own, on a grid of  *)
(* any shape, then the populations reversed at every cell and streamed     *)
(* once more.                                                              *)
(***************************************************************************)
Dirs == 0 .. 8

\* every entry different: the value names the entry it started in
Labelled(n, m) ==
  [d \in Dirs |-> [i \in Rows(n) |-> [j \in Rows(m) |->
     Whole(1 + d * n * m + i * m + j)]]]

\* a unit impulse of direction d0 at cell (i0, j0)
Impulse(n, m, d0, i0, j0) ==
  [d \in Dirs |-> [i \in Rows(n) |-> [j \in Rows(m) |->
     IF d = d0 /\ i = i0 /\ j = j0 THEN One ELSE Zero]]]

StreamInputs(n, m) ==
  {Labelled(n, m)} \cup
  {Impulse(n, m, d, i, j) : d \in Moving, i \in Rows(n), j \in Rows(m)}

AllCells(n, m) == Rows(n) \X Rows(m)

InitStream ==
  /\ nx \in 1 .. MaxN
  /\ ny \in 1 .. MaxN
  /\ f \in StreamInputs(nx, ny)
  /\ hist = [f_in |-> f]
  /\ pc = "call"
  /\ error = "none"
  /\ choice = "none" /\ BOUND = None /\ deltaU = Zero /\ endTime = 0
  /\ f_EQ = None /\ BOUNCEDBACK = None
  /\ DENSITY = None /\ UX = None /\ UY = None /\ vorticity = None
  /\ ts = 0 /\ ctsave = 0 /\ print_dump = 0 /\ vtk = << >>

\* f = please_Stream_Distribution(f, nx, ny)
StreamCall ==
  /\ pc \in {"call", "call2"}
  /\ LET r == please_Stream_Distribution(f, nx, ny)
     IN IF r.status = "ok"
        THEN /\ f' = r.f
             /\ pc' = IF pc = "call" THEN "returned" ELSE "returned2"
             /\ error' = error
        ELSE /\ f' = f
             /\ pc' = "raised"
             /\ error' = r.status
  /\ UNCHANGED << nx, ny, choice, BOUND, deltaU, endTime, f_EQ, BOUNCEDBACK,
                  DENSITY, UX, UY, vorticity, ts, ctsave, print_dump, vtk, hist >>

\* every cell reflects: each moving population goes to its REFLECTED level
ReverseAll ==
  /\ pc = "returned"
  /\ f' = Restore(f, Capture(f, AllCells(nx, ny)), AllCells(nx, ny))
  /\ pc' = "call2"
  /\ UNCHANGED << nx, ny, choice, BOUND, deltaU, endTime, f_EQ, BOUNCEDBACK,
                  DENSITY, UX, UY, vorticity, ts, ctsave, print_dump, error,
                  vtk, hist >>

NextStream == StreamCall \/ ReverseAll

SpecStream == InitStream /\ [][NextStream]_vars

(***************************************************************************)
(* Spec: a run of lets_do_LBM (lines 343-515).                             *)
(*                                                                         *)
(* Inputs drawn in Init and at the geometry step: the grid (nx, ny), the   *)
(* scenario name (any of the five, or a name the function does not know),  *)
(* or a geometry handed over in place of the function's ("given": any of   *)
(* GivenMasks, with or without inlet forcing), the number of timesteps,    *)
(* and the populations at loop entry: the source's uniform density/9 and   *)
(* a non-uniform field, standing for the states later timesteps reach.     *)
(***************************************************************************)
DumpCount == 50       \* print_dump = int(np.floor(endTime/50))

EndTimes == {1, DumpCount, MaxEndTime}

Uniform(n, m) == [d \in Dirs |-> Full(n, m, RDiv(density, Whole(9)))]     \* 380

Graded(n, m) ==
  [d \in Dirs |-> [i \in Rows(n) |-> [j \in Rows(m) |->
     Whole(1 + ((d + 2 * i + 3 * j) % 7))]]]

InitialF(n, m) == [uniform |-> Uniform(n, m), graded |-> Graded(n, m)]

\* masks handed over in place of the geometry function's: no obstacle, or
\* a single obstacle cell (on the inlet line, or in the far corner)
GivenMasks(n, m) ==
  {Full(n, m, 0)} \cup
  {[i \in Rows(n) |-> [j \in Rows(m) |-> IF << i, j >> = c THEN 1 ELSE 0]] :
     c \in {<< 0, 0 >>, << n - 1, m - 1 >>}}

GivenDeltaU == {Zero, Rat(1, 100)}

\* the stages of one loop iteration, in source order
Stages == << "stream", "capture", "macro", "equilibrium", "collision",
             "restore", "increment", "snapshot" >>

\* a loop body that restores the bounce-back before the collision
NextStage_RestoreFirst(st) ==
  CASE st = "stream"      -> "capture"
    [] st = "capture"     -> "macro"
    [] st = "macro"       -> "equilibrium"
    [] st = "equilibrium" -> "restore"
    [] st = "restore"     -> "collision"
    [] st = "collision"   -> "increment"
    [] st = "increment"   -> "snapshot"
    [] st = "snapshot"    -> "loop"

\* the stage the loop body goes to after stage st (lines 430-506)
NextStage(st) ==
  CASE st = "stream"      -> "capture"
    [] st = "capture"     -> "macro"
    [] st = "macro"       -> "equilibrium"
    [] st = "equilibrium" -> "collision"
    [] st = "collision"   -> "restore"
    [] st = "restore"     -> "increment"
    [] st = "increment"   -> "snapshot"
    [] st = "snapshot"    -> "loop"

\* what os.mkdir('vtk_data') can do
MkdirOutcomes == {"created", "FileExistsError", "PermissionError"}

\* what a call of print_vtk_files can do: return, or fail to write
PrintVtkOutcomes == {"ok", "OSError"}

Init ==
  /\ nx \in 1 .. MaxN
  /\ ny \in 1 .. MaxN
  /\ \E k \in DOMAIN InitialF(nx, ny) :
       /\ f = InitialF(nx, ny)[k]
       /\ hist = [init |-> k, mass0 |-> Total(f, nx, ny), streamed |-> None,
                  stages |-> << >>, started |-> 0, iters |-> 0,
                  io |-> "none", sent |-> None]
  /\ f_EQ = Uniform(nx, ny)                                                \* 381
  /\ choice \in Scenarios \cup {"unknown", "given"}
  /\ pc = "geometry"
  /\ error = "none"
  /\ BOUND = None /\ deltaU = Zero /\ endTime = 0
  /\ BOUNCEDBACK = None
  /\ DENSITY = None /\ UX = None /\ UY = None /\ vorticity = None
  /\ ts = 0 /\ ctsave = 0 /\ print_dump = 0 /\ vtk = << >>

\* the history with stage st recorded as run in the current iteration
Staged(st) == [hist EXCEPT !.stages = Append(@, st)]

Abort(e) ==
  /\ pc' = "error"
  /\ error' = e

\* lines 390-404, after the geometry g was obtained
UseGeometry(g) ==
  IF g.status # "ok"
  THEN /\ Abort(g.status)
       /\ UNCHANGED << BOUND, deltaU, endTime, BOUNCEDBACK, ts >>
  ELSE /\ BOUND' = g.BOUNDs
       /\ deltaU' = g.deltaU
       /\ endTime' \in EndTimes
       /\ BOUNCEDBACK' = [c \in ON(g.BOUNDs) |-> [d \in Moving |-> Zero]]  \* 398
       /\ ts' = 0                                                          \* 404
       /\ LET st == BoundaryPtsStatus(nx, ny, ON(g.BOUNDs))                \* 401
          IN IF st = "ok" THEN pc' = "mkdir" /\ error' = error
             ELSE Abort(st)

\* BOUND, deltaU, endTime = give_Me_Problem_Geometry(choice, nx, ny, ..)
SelectGeometry ==
  /\ pc = "geometry"
  /\ choice # "given"
  /\ \E g \in give_Me_Problem_Geometry(choice, nx, ny) : UseGeometry(g)
  /\ UNCHANGED << nx, ny, choice, f, f_EQ, DENSITY, UX, UY, vorticity,
                  ctsave, print_dump, vtk, hist >>

\* the same statements with a geometry handed over by the caller
GivenGeometry ==
  /\ pc = "geometry"
  /\ choice = "given"
  /\ \E B \in GivenMasks(nx, ny), dU \in GivenDeltaU : UseGeometry(Ok(B, dU))
  /\ UNCHANGED << nx, ny, choice, f, f_EQ, DENSITY, UX, UY, vorticity,
                  ctsave, print_dump, vtk, hist >>

\* lines 409-416
MakeDir ==
  /\ pc = "mkdir"
  /\ print_dump' = endTime \div DumpCount
  /\ ctsave' = 0
  /\ \E o \in MkdirOutcomes :
       IF o \in {"created", "FileExistsError"}     \* except FileExistsError: pass
       THEN /\ pc' = "initdump"
            /\ error' = error
            /\ hist' = hist
       ELSE /\ Abort(o)
            /\ hist' = [hist EXCEPT !.io = o]
  /\ UNCHANGED << nx, ny, choice, BOUND, deltaU, endTime, f, f_EQ, BOUNCEDBACK,
                  DENSITY, UX, UY, vorticity, ts, vtk >>

\* print_vtk_files(ctsave, UX, UY, vorticity, ..): the call is not guarded
Handoff(n, Ux, Uy, V, next, h) ==
  \E o \in PrintVtkOutcomes :
     IF o = "ok"
     THEN /\ vtk' = Append(vtk, [ctsave |-> n, ts |-> ts'])
          /\ pc' = next
          /\ error' = error
          /\ hist' = [h EXCEPT !.sent = << Ux, Uy >>]
     ELSE /\ vtk' = vtk
          /\ Abort(o)
          /\ hist' = [h EXCEPT !.io = o]

\* lines 419-422
InitialDump ==
  /\ pc = "initdump"
  /\ UX' = Full(nx, ny, Zero)
  /\ UY' = Full(nx, ny, Zero)
  /\ vorticity' = Full(nx - 1, ny - 1, Zero)
  /\ ts' = ts
  /\ Handoff(ctsave, UX', UY', vorticity', "loop", hist)
  /\ UNCHANGED << nx, ny, choice, BOUND, deltaU, endTime, f, f_EQ, BOUNCEDBACK,
                  DENSITY, ctsave, print_dump >>

\* while ( ts < endTime ):                                          line 426
LoopTest ==
  /\ pc = "loop"
  /\ pc' = IF ts < endTime THEN Stages[1] ELSE "done"
  /\ hist' = IF ts < endTime
              THEN [hist EXCEPT !.stages = << >>, !.started = @ + 1]
              ELSE hist
  /\ UNCHANGED << nx, ny, choice, BOUND, deltaU, endTime, f, f_EQ, BOUNCEDBACK,
                  DENSITY, UX, UY, vorticity, ts, ctsave, print_dump, error, vtk >>

\* line 430
Stream ==
  /\ pc = "stream"
  /\ LET r == please_Stream_Distribution(f, nx, ny)
     IN IF r.status = "ok"
        THEN /\ f' = r.f
             /\ pc' = NextStage(pc)
             /\ error' = error
             /\ hist' = [Staged(pc) EXCEPT !.streamed = r.f]
        ELSE /\ f' = f
             /\ Abort(r.status)
             /\ hist' = hist
  /\ UNCHANGED << nx, ny, choice, BOUND, deltaU, endTime, f_EQ, BOUNCEDBACK,
                  DENSITY, UX, UY, vorticity, ts, ctsave, print_dump, vtk >>

\* lines 435-442
CaptureBounceBack ==
  /\ pc = "capture"
  /\ BOUNCEDBACK' = Capture(f, ON(BOUND))
  /\ pc' = NextStage(pc)
  /\ hist' = Staged(pc)
  /\ UNCHANGED << nx, ny, choice, BOUND, deltaU, endTime, f, f_EQ,
                  DENSITY, UX, UY, vorticity, ts, ctsave, print_dump, error, vtk >>

\* lines 447-462
Macroscopic ==
  /\ pc = "macro"
  /\ LET D == Density(f, nx, ny)
     IN /\ UX' = MacroUX(f, D, nx, ny, deltaU, ON(BOUND))
        /\ UY' = MacroUY(f, D, nx, ny, ON(BOUND))
        /\ DENSITY' = ZeroAt(D, ON(BOUND))
  /\ pc' = NextStage(pc)
  /\ hist' = Staged(pc)
  /\ UNCHANGED << nx, ny, choice, BOUND, deltaU, endTime, f, f_EQ, BOUNCEDBACK,
                  vorticity, ts, ctsave, print_dump, error, vtk >>

\* lines 466-476
EquilibriumStep ==
  /\ pc = "equilibrium"
  /\ f_EQ' = Equilibrium(DENSITY, UX, UY, f_EQ)
  /\ pc' = NextStage(pc)
  /\ hist' = Staged(pc)
  /\ UNCHANGED << nx, ny, choice, BOUND, deltaU, endTime, f, BOUNCEDBACK,
                  DENSITY, UX, UY, vorticity, ts, ctsave, print_dump, error, vtk >>

\* line 480
Collision ==
  /\ pc = "collision"
  /\ f' = Collide(f, f_EQ)
  /\ pc' = NextStage(pc)
  /\ hist' = Staged(pc)
  /\ UNCHANGED << nx, ny, choice, BOUND, deltaU, endTime, f_EQ, BOUNCEDBACK,
                  DENSITY, UX, UY, vorticity, ts, ctsave, print_dump, error, vtk >>

\* lines 491-498
RestoreBounceBack ==
  /\ pc = "restore"
  /\ f' = Restore(f, BOUNCEDBACK, ON(BOUND))
  /\ pc' = NextStage(pc)
  /\ hist' = Staged(pc)
  /\ UNCHANGED << nx, ny, choice, BOUND, deltaU, endTime, f_EQ, BOUNCEDBACK,
                  DENSITY, UX, UY, vorticity, ts, ctsave, print_dump, error, vtk >>

\* line 502
Increment ==
  /\ pc = "increment"
  /\ ts' = ts + 1
  /\ pc' = NextStage(pc)
  /\ hist' = [Staged(pc) EXCEPT !.iters = @ + 1]
  /\ UNCHANGED << nx, ny, choice, BOUND, deltaU, endTime, f, f_EQ, BOUNCEDBACK,
                  DENSITY, UX, UY, vorticity, ctsave, print_dump, error, vtk >>

\* a test that asks for a snapshot one iteration early
DumpDue_OneEarly(c, pd) == ((c + 1) % pd) = 0

\* if (ctsave % print_dump) == 0:                                  line 506
DumpDue(c, pd) == (c % pd) = 0

\* lines 505-515
Snapshot ==
  /\ pc = "snapshot"
  /\ ctsave' = ctsave + 1
  /\ ts' = ts
  /\ IF print_dump = 0                       \* ctsave % print_dump
     THEN /\ Abort("ZeroDivisionError")
          /\ hist' = Staged(pc)
          /\ UNCHANGED << vorticity, vtk >>
     ELSE IF DumpDue(ctsave', print_dump)
     THEN /\ vorticity' = Vorticity(vorticity, UX, UY, nx, ny)
          /\ Handoff(ctsave', UX, UY, vorticity', NextStage(pc), Staged(pc))
     ELSE /\ pc' = NextStage(pc)
          /\ hist' = Staged(pc)
          /\ UNCHANGED << vorticity, vtk, error >>
  /\ UNCHANGED << nx, ny, choice, BOUND, deltaU, endTime, f, f_EQ, BOUNCEDBACK,
                  DENSITY, UX, UY, print_dump >>

Next ==
  \/ SelectGeometry
  \/ GivenGeometry
  \/ MakeDir
  \/ InitialDump
  \/ LoopTest
  \/ Stream
  \/ CaptureBounceBack
  \/ Macroscopic
  \/ EquilibriumStep
  \/ Collision
  \/ RestoreBounceBack
  \/ Increment
  \/ Snapshot

Spec == Init /\ [][Next]_vars

(***************************************************************************)
(* SpecEq: the equilibrium computation (lines 466-476) called on its own,  *)
(* on density and velocity fields drawn from small sets.                   *)
(***************************************************************************)
EqDensities  == {Zero, Rat(1, 100), One, Whole(3), Rat(-1, 2)}
EqVelocities == {Zero, Rat(1, 10), Rat(-1, 100)}

\* a field that differs from cell to cell: v, 2v, 3v, ..
EqField(v, n, m) ==
  [i \in Rows(n) |-> [j \in Rows(m) |-> RMul(v, Whole(1 + i + 2 * j))]]

InitEq ==
  /\ nx \in 1 .. MaxN
  /\ ny \in 1 .. MaxN
  /\ \E v \in EqDensities : DENSITY = EqField(v, nx, ny)
  /\ \E v \in EqVelocities : UX = EqField(v, nx, ny)
  /\ \E v \in EqVelocities : UY = EqField(v, nx, ny)
  /\ f_EQ = Uniform(nx, ny)
  /\ pc = "call"
  /\ error = "none"
  /\ hist = [init |-> "fields"]
  /\ choice = "none" /\ BOUND = None /\ deltaU = Zero /\ endTime = 0
  /\ f = None /\ BOUNCEDBACK = None /\ vorticity = None
  /\ ts = 0 /\ ctsave = 0 /\ print_dump = 0 /\ vtk = << >>

EqCall ==
  /\ pc = "call"
  /\ f_EQ' = Equilibrium(DENSITY, UX, UY, f_EQ)
  /\ pc' = "returned"
  /\ UNCHANGED << nx, ny, choice, BOUND, deltaU, endTime, f, BOUNCEDBACK,
                  DENSITY, UX, UY, vorticity, ts, ctsave, print_dump, error,
                  vtk, hist >>

NextEq == EqCall

SpecEq == InitEq /\ [][NextEq]_vars

(***************************************************************************)
(* Properties.                                                             *)
(***************************************************************************)
\* the displacement the streamer applies to direction d, read off its index
\* arrays on a 3 by 3 grid: +1 for [n-1, 0, ..], -1 for [1, .., 0], else 0
AxisShift(d, axis) ==
  LET S == StreamSteps(3, 3)
      K == {k \in DOMAIN S : S[k].d = d /\ S[k].axis = axis}
  IN IF K = {} THEN 0
     ELSE IF S[CHOOSE k \in K : TRUE].inds = ShiftUp(3) THEN 1 ELSE -1

Displacement(d) == << AxisShift(d, 0), AxisShift(d, 1) >>

\* the direction whose displacement is the negation of d's
Opposites ==
  [d \in Moving |->
     CHOOSE e \in Moving : Displacement(e) = << -Displacement(d)[1], -Displacement(d)[2] >>]

Opposite(d) == Opposites[d]

\* C1: on every grid nx by ny, please_Stream_Distribution returns, and in
\* what it returns f[d][i][j] is the old f[d][(i-dx) mod nx][(j-dy) mod ny]
\* for the displacements 0:(+1,0) 1:(0,+1) 2:(-1,0) 3:(0,-1) 4:(+1,+1)
\* 5:(-1,+1) 6:(-1,-1) 7:(+1,-1), and direction 8 is unchanged.
ClaimedDisplacement ==
  << << 1, 0 >>, << 0, 1 >>, << -1, 0 >>, << 0, -1 >>,
     << 1, 1 >>, << -1, 1 >>, << -1, -1 >>, << 1, -1 >> >>

ShiftedBy(F, F0, D) ==
  /\ \A d \in Moving, i \in Rows(nx), j \in Rows(ny) :
       F[d][i][j] = F0[d][(i - D[d + 1][1]) % nx][(j - D[d + 1][2]) % ny]
  /\ F[8] = F0[8]

C1_StreamShiftsOnEveryGrid ==
  /\ pc # "raised"
  /\ pc = "returned" => ShiftedBy(f, hist.f_in, ClaimedDisplacement)

\* what holds instead: the shift is as claimed whenever the call returns,
\* and the call returns exactly on the square grids
StreamShiftsWhenSquare ==
  /\ pc = "raised" <=> (pc # "call" /\ nx # ny)
  /\ pc = "returned" => ShiftedBy(f, hist.f_in, ClaimedDisplacement)
  /\ \A d \in Moving : Displacement(d) = ClaimedDisplacement[d + 1]

\* C7: for every direction d, origin cell and grid size, a unit impulse of
\* direction d streamed once, reversed into direction REFLECTED[d] and
\* streamed once more is back on its origin cell and nowhere else.
C7_ImpulseRoundTrip ==
  \A d \in Moving, i \in Rows(nx), j \in Rows(ny) :
     hist.f_in = Impulse(nx, ny, d, i, j) =>
       /\ pc # "raised"
       /\ pc = "returned2" => f = Impulse(nx, ny, REFLECTED[d], i, j)

\* what holds instead: the round trip closes on the square grids
ImpulseRoundTripWhenSquare ==
  \A d \in Moving, i \in Rows(nx), j \in Rows(ny) :
     hist.f_in = Impulse(nx, ny, d, i, j) /\ pc = "returned2" =>
       f = Impulse(nx, ny, REFLECTED[d], i, j)

\* C8: with UX = UY = 0 in every cell, the equilibrium returned is
\* w1*DENSITY for direction 8, w2*DENSITY for directions 0..3 and
\* w3*DENSITY for directions 4..7, in every cell.
AtRest == \A i \in Rows(nx), j \in Rows(ny) : UX[i][j] = Zero /\ UY[i][j] = Zero

C8_EquilibriumAtRest ==
  (pc = "returned" /\ AtRest) =>
    \A i \in Rows(nx), j \in Rows(ny) :
       /\ f_EQ[8][i][j] = RMul(w1, DENSITY[i][j])
       /\ \A d \in 0 .. 3 : f_EQ[d][i][j] = RMul(w2, DENSITY[i][j])
       /\ \A d \in 4 .. 7 : f_EQ[d][i][j] = RMul(w3, DENSITY[i][j])

\* C8 witness: the call has returned on a grid of several cells at rest
\* whose densities differ and are neither 0 nor 1
C8_Witness ==
  /\ pc = "returned" /\ AtRest
  /\ nx = 2 /\ ny = 2
  /\ DENSITY[0][0] = Rat(1, 100) /\ DENSITY[1][1] = Rat(1, 25)
  /\ f_EQ[8][1][1] = Rat(4, 225)

\* the stage list is a prefix of Stages
InOrder(done) == Len(done) <= Len(Stages) /\ \A k \in 1 .. Len(done) : done[k] = Stages[k]

LoopStages == {Stages[k] : k \in 1 .. Len(Stages)}

\* C3: in every iteration the stages run once each, in the order Stream,
\* Capture, Macroscopic Recovery, Equilibrium, Collision, Restore, increment
\* of ts (then the snapshot test); the stage about to run is the next of
\* that order; ts counts the iterations whose increment has run, and the
\* stages of iteration k+1 start only after ts was incremented for k.
C3_StagesInOrder ==
  /\ InOrder(hist.stages)
  /\ pc \in LoopStages => pc = Stages[Len(hist.stages) + 1]
  /\ pc \in {"loop", "done"} => hist.stages = << >> \/ hist.stages = Stages
  /\ ts = hist.iters
  /\ hist.iters = IF Len(hist.stages) >= 7 THEN hist.started ELSE Max(hist.started - 1, 0)

\* C3 witness: a second iteration has run all its stages
C3_Witness ==
  /\ pc = "loop" /\ hist.started = 2 /\ hist.stages = Stages /\ ts = 2

\* C4 (as claimed): on a run that got its geometry and met no I/O failure,
\* on a square grid from the source's initial f, the run ends only in
\* "done", with ts = endTime after exactly endTime iterations, and ts never
\* passes endTime.
C4_RunsEndTimeIterations ==
  (hist.init = "uniform" /\ nx = ny /\ BOUND # None /\ hist.io = "none") =>
     /\ ts <= endTime
     /\ pc # "error"
     /\ pc = "done" => ts = endTime /\ hist.iters = endTime

\* what holds instead: such a run ends in "done" after endTime iterations
\* when endTime >= 50, and in ZeroDivisionError after the first iteration
\* when endTime < 50
RunsEndTimeIterationsFrom50 ==
  (nx = ny /\ BOUND # None /\ hist.io = "none") =>
     /\ ts <= endTime
     /\ pc = "done" => ts = endTime /\ hist.iters = endTime /\ endTime >= DumpCount
     /\ pc = "error" => error = "ZeroDivisionError" /\ endTime < DumpCount /\ ts = 1

\* the end of a timestep: its Restore has run
AfterRestore == "restore" \in {hist.stages[k] : k \in 1 .. Len(hist.stages)}

\* C2: at the end of every timestep, at every obstacle cell c and moving
\* direction d, f[d][c] is the value f[Opposite(d)][c] had right after that
\* timestep's streaming, Opposite being the negation of the displacement
\* the streamer applies.
C2_BounceBackReverses ==
  AfterRestore =>
    \A c \in ON(BOUND), d \in Moving :
       f[d][c[1]][c[2]] = hist.streamed[Opposite(d)][c[1]][c[2]]

\* C2 witness: at an obstacle cell the restored value is tracked, differs
\* from what the collision had left there and from the streamed value of
\* the same direction
C2_Witness ==
  /\ AfterRestore /\ hist.init = "graded"
  /\ \E c \in ON(BOUND), d \in Moving :
       /\ IsNum(f[d][c[1]][c[2]])
       /\ f[d][c[1]][c[2]] # hist.streamed[d][c[1]][c[2]]
       /\ f[d][c[1]][c[2]] # Relax(hist.streamed[d][c[1]][c[2]], f_EQ[d][c[1]][c[2]])
       /\ IsNum(Relax(hist.streamed[d][c[1]][c[2]], f_EQ[d][c[1]][c[2]]))

\* C5: with no obstacle and deltaU = 0, the total of f over all cells and
\* directions is, after every timestep, what it was at initialization
\* (stated of the totals the model tracks exactly).
C5_MassConserved ==
  (BOUND # None /\ ON(BOUND) = {} /\ deltaU = Zero /\ AfterRestore) =>
     (Total(f, nx, ny) # Untracked => Total(f, nx, ny) = hist.mass0)

\* C5 witness: a timestep on a non-uniform field has changed f and the
\* total is tracked
C5_Witness ==
  /\ BOUND # None /\ ON(BOUND) = {} /\ deltaU = Zero /\ AfterRestore
  /\ hist.init = "graded" /\ nx = 3 /\ ny = 3
  /\ IsNum(Total(f, nx, ny))
  /\ f # Graded(nx, ny) /\ f # hist.streamed

\* Macroscopic Recovery has run at least once
Recovered == DENSITY # None

\* C6: after Macroscopic Recovery, every cell of the obstacle mask has
\* UX = 0, UY = 0 and DENSITY = 0, also on the inlet line (first index 0);
\* in the channel scenario that covers both wall lines (second index 0 and
\* ny-1).
C6_ObstacleCellsZeroed ==
  Recovered =>
    /\ \A c \in ON(BOUND) :
         /\ UX[c[1]][c[2]] = Zero
         /\ UY[c[1]][c[2]] = Zero
         /\ DENSITY[c[1]][c[2]] = Zero
    /\ choice = "channel" =>
         \A i \in Rows(nx), j \in {0, ny - 1} :
            UX[i][j] = Zero /\ UY[i][j] = Zero /\ DENSITY[i][j] = Zero

\* C6 witness: in the channel scenario a wall cell of the inlet line had a
\* non-zero density and would have had a non-zero velocity
C6_Witness ==
  /\ pc = "equilibrium" /\ choice = "channel" /\ nx = 3 /\ ny = 3
  /\ deltaU # Zero
  /\ << 0, 0 >> \in ON(BOUND)
  /\ Density(f, nx, ny)[0][0] # Zero
  /\ Inlet(VelocityX(f, Density(f, nx, ny), nx, ny), deltaU)[0][0] # Zero
  /\ UX[0][1] # Zero

\* C9 (as claimed): an unknown scenario name is answered without an error
C9_UnknownNameSilent == choice = "unknown" => error = "none"

\* C9 (amended): an unknown scenario name matches no branch and the return
\* statement raises UnboundLocalError; no mask is returned and the run ends
\* there, before the timestep loop.
C9_UnknownNameRaises ==
  (choice = "unknown" /\ pc # "geometry") =>
     /\ pc = "error" /\ error = "UnboundLocalError"
     /\ BOUND = None
     /\ hist.started = 0 /\ ts = 0

\* C9 witness: the geometry call was made with an unknown name
C9_Witness == choice = "unknown" /\ pc = "error" /\ nx = ny

\* C10: neither an existing output directory nor a failed snapshot write
\* ends the run
C10_OutputErrorsRecovered == error \notin {"FileExistsError", "OSError"}

\* what holds instead: an existing directory is recovered from; a failed
\* snapshot write ends the run where it happens
OutputErrorsEndTheRun ==
  /\ error # "FileExistsError"
  /\ hist.io # "none" => pc = "error" /\ error = hist.io

\* the streaming displacement of every moving direction
Displacements == [d \in Moving |-> Displacement(d)]

\* the moving directions whose streaming displacement along axis is s
Group(axis, s) == {d \in Moving : Displacements[d][axis + 1] = s}

\* the sum of F over the directions of G at cell (i, j)
GroupSum(F, G, i, j) == RSum([d \in Dirs |-> F[d][i][j]], G)

\* (sum over the +1 group - sum over the -1 group) / rho at cell (i, j)
Momentum(F, rho, axis, i, j) ==
  RDiv(RSub(GroupSum(F, Group(axis, 1), i, j), GroupSum(F, Group(axis, -1), i, j)), rho)

\* the values are the same, or one of them is not tracked by the model
Agree(x, y) == x = Untracked \/ y = Untracked \/ x = y

\* Macroscopic Recovery has just run: f is still the streamed image it read
JustRecovered == pc = "equilibrium"

\* C11: right after Macroscopic Recovery, at every non-obstacle cell UX is
\* (sum of f over the three directions streamed by +1 in x, which are
\* 0, 4, 7, minus the sum over the three streamed by -1 in x, which are
\* 2, 5, 6) / DENSITY, plus deltaU once in the cells of first index 0 and
\* nothing elsewhere; UY is the same for y (1, 4, 5 minus 3, 6, 7) with no
\* increment in any cell.
C11_MacroscopicRecovery ==
  /\ Group(0, 1) = {0, 4, 7} /\ Group(0, -1) = {2, 5, 6}
  /\ Group(1, 1) = {1, 4, 5} /\ Group(1, -1) = {3, 6, 7}
  /\ JustRecovered =>
       \A i \in Rows(nx), j \in Rows(ny) :
          << i, j >> \notin ON(BOUND) =>
             /\ Agree(UX[i][j],
                      IF i = 0
                      THEN RAdd(Momentum(f, DENSITY[i][j], 0, i, j), deltaU)
                      ELSE Momentum(f, DENSITY[i][j], 0, i, j))
             /\ Agree(UY[i][j], Momentum(f, DENSITY[i][j], 1, i, j))

\* C11 witness: on a non-uniform field with an inlet increment, tracked
\* non-zero velocities at a free inlet cell and at a free cell off the
\* inlet line, the inlet cell's UX differing from its momentum quotient
C11_Witness ==
  /\ JustRecovered /\ hist.init = "graded" /\ deltaU # Zero /\ nx = 3 /\ ny = 3
  /\ \E j \in Rows(ny) :
       /\ << 0, j >> \notin ON(BOUND)
       /\ IsNum(UX[0][j]) /\ IsNum(UY[0][j]) /\ UY[0][j] # Zero
       /\ IsNum(Momentum(f, DENSITY[0][j], 0, 0, j))
       /\ UX[0][j] # Momentum(f, DENSITY[0][j], 0, 0, j)
  /\ \E i \in 1 .. (nx - 1), j \in Rows(ny) :
       /\ << i, j >> \notin ON(BOUND)
       /\ IsNum(UX[i][j]) /\ UX[i][j] # Zero
       /\ IsNum(UY[i][j]) /\ UY[i][j] # Zero
       /\ UX[i][j] # UY[i][j]

\* the iterations whose snapshot test has run
Tested == IF pc = "snapshot" THEN ts - 1 ELSE ts

\* the hand-offs issued inside the loop, in order: all but the initial one
InLoop == SubSeq(vtk, 2, Len(vtk))

\* C12: in a run with print_dump = floor(endTime/50) >= 1 and no failed
\* write, the hand-offs issued inside the loop are, in order, one for each
\* multiple of print_dump among the iterations completed so far and none
\* for any other iteration; a hand-off is issued after its iteration's
\* Restore and increment of ts, and what it carries is the UX and UY that
\* iteration's Macroscopic Recovery computed from its streamed f.
C12_SnapshotCadence ==
  (print_dump >= 1 /\ error = "none" /\ Len(vtk) >= 1) =>
     /\ Len(InLoop) = Tested \div print_dump
     /\ \A k \in 1 .. Len(InLoop) :
          InLoop[k].ts = k * print_dump /\ InLoop[k].ctsave = k * print_dump
     /\ (pc = "loop" /\ ts > 0 /\ ts % print_dump = 0) =>
          /\ hist.stages = Stages
          /\ hist.sent = << UX, UY >>
          /\ LET D == Density(hist.streamed, nx, ny)
             IN /\ UX = MacroUX(hist.streamed, D, nx, ny, deltaU, ON(BOUND))
                /\ UY = MacroUY(hist.streamed, D, nx, ny, ON(BOUND))

\* every entry of the array A is tracked
Tracked(A) == \A i \in DOMAIN A : \A j \in DOMAIN A[i] : IsNum(A[i][j])

\* C12 witness: with print_dump = 2, after the fourth iteration two
\* hand-offs were issued inside the loop (after iterations 2 and 4, none
\* after 1 and 3), the last one carrying tracked non-zero velocities
C12_Witness ==
  /\ print_dump = 2 /\ pc = "loop" /\ ts = 4 /\ error = "none"
  /\ Len(InLoop) = 2 /\ InLoop[1].ts = 2 /\ InLoop[2].ts = 4
  /\ Tracked(hist.sent[1]) /\ Tracked(hist.sent[2])
  /\ hist.sent[1] # Full(nx, ny, Zero)

====
